---- MODULE Spec2Model ----
(***************************************************************************)
(* Model of the schema-auditor scan service.  The repository holds two     *)
(* iterations of the same POST /scan pipeline:                             *)
(*   "async" : src/api.py       (async handler, async Playwright,          *)
(*                               synchronous OpenAI client)                *)
(*   "sync"  : src/api/main.py  (def handler run in the framework's        *)
(*                               thread pool, sync Playwright, typed       *)
(*                               response)                                 *)
(* A deployment runs one of the two; app records which.                    *)
(***************************************************************************)
EXTENDS Integers, Sequences, FiniteSets, TLC

\* ------------------------------------------------------------------ bounds
NumRequests == 2
MaxViolations == 2
MaxOver == 2

\* ------------------------------------------------------- program constants
CapSync == 5000
CapAsync == 15000

Apps == {"async", "sync"}
Requests == 1..NumRequests

VARIABLES
    app,          \* which iteration is deployed
    api_key,      \* openai client's api_key ("" when OPENAI_API_KEY is empty)
    loop_holder,  \* async: request whose blocking call holds the event loop, 0 if none
    pc,           \* per request: position of its handler
    url,          \* per request: the url field of the request body
    browser,      \* per request: the browser launched for it
    nav,          \* per request: outcome of page.goto
    extracted,    \* per request: both extractions have returned
    schema_data,  \* per request: extracted JSON-LD blocks
    visible_text, \* per request: extracted visible text
    ai_calls,     \* per request: calls made to chat.completions.create
    ai_request,   \* per request: what the last call sent
    reply,        \* per request: message content the service returned
    analysis,     \* per request: the value the handler is about to return
    response,     \* per request: the HTTP response
    n_pc, n_list, n_other, n_out_array, n_out_object, n_out_other,
    t_pc, t_text, t_sent, t_resent

pipeVars == <<api_key, loop_holder, pc, url, browser, nav, extracted, schema_data,
              visible_text, ai_calls, ai_request, reply, analysis, response>>
normVars == <<n_pc, n_list, n_other, n_out_array, n_out_object, n_out_other>>
truncVars == <<t_pc, t_text, t_sent, t_resent>>
vars == <<app, pipeVars, normVars, truncVars>>

\* ------------------------------------------------------------- JSON values
Absent == "<absent>"
Null == "<null>"

\* One element of a reply's violation list.  isdict = FALSE is an element
\* that is not a JSON object.  A field is Absent, Null or a string.
Entries ==
    [isdict : {TRUE}, severity : {Absent, Null, "High"},
     description : {Absent, Null, "d"}, policy_reference : {Absent, "p"},
     issue : {Absent, "i"}]
    \cup {[isdict |-> FALSE, severity |-> Absent, description |-> Absent,
           policy_reference |-> Absent, issue |-> Absent]}

RECURSIVE SeqsUpTo(_, _)
SeqsUpTo(S, n) ==
    IF n = 0 THEN {<<>>}
    ELSE LET shorter == SeqsUpTo(S, n - 1)
         IN  shorter \cup {Append(s, e) : s \in {x \in shorter : Len(x) = n - 1}, e \in S}

EntryLists == SeqsUpTo(Entries, MaxViolations)

\* The message content of a completion.
\*   invalid            text that is not JSON
\*   none               no content at all (None)
\*   array              a bare JSON array, items
\*   object_violations  an object with a "violations" key holding the array items
\*   object_null        an object whose "violations" value is null
\*   object_other       an object without a "violations" key
\*   scalar             a JSON string or number
ArrayReply(L) == [kind |-> "array", items |-> L]
ObjectReply(L) == [kind |-> "object_violations", items |-> L]
OtherReply(k) == [kind |-> k, items |-> <<>>]
OtherShapes == {"object_other", "scalar", "object_null"}
NoReply == OtherReply("pending")
TransportError == OtherReply("transport_error")

\* json.loads succeeds
json_loads_any(r) == TRUE
json_loads_ok(r) == r.kind \notin {"invalid", "none"}

\* ------------------------------------------------------- request validation
\* ScanRequest: url is a str in the async app and an HttpUrl in the sync app.
\* A body without a url fails either model.
Urls == {"wellformed", "malformed", "missing"}
ScanRequest(a, u) ==
    IF a = "async" THEN u # "missing" ELSE u = "wellformed"

\* ---------------------------------------------------------------- responses
NoBody == [kind |-> "none"]
Resp(code, detail, body) == [code |-> code, detail |-> detail, body |-> body]
NoResponse == Resp(0, "", NoBody)
HTTPException(code, detail) == Resp(code, detail, [kind |-> "error"])
ValidationError422 == HTTPException(422, "validation error")

\* The handler's except clause around the browser block.
ScrapeError422(a) == HTTPException(422, "Scraping failed")
ScrapeError(a) ==
    IF a = "async" THEN HTTPException(400, "Scraping failed")
    ELSE HTTPException(500, "Error scanning URL")

\* Leaving the playwright context manager stops the driver, and the driver
\* closes every browser it launched that is still open.
PlaywrightExitLeak(b) == b
PlaywrightExit(b) == IF b = "open" THEN "closed" ELSE b

\* page.goto: a url that does not parse cannot be navigated to.
NavOutcomes(u) ==
    IF u = "wellformed" THEN {"ok", "error", "timeout"} ELSE {"error"}

\* --------------------------------------------------------------- extraction
\* A text is a sequence of character codes.
MakeText(n, k) == [i \in 1..n |-> (i * k) % 3]
PipelineTexts == {MakeText(0, 1), MakeText(2, 1)}

\* async: the innerText of every ld+json script (raw text).
\* sync : the parsed value of every script that parses; a value that is an
\*        array is spliced in, so an item is an object or some other value.
SchemaSets(a) ==
    IF a = "async" THEN {<<>>, <<"text">>}
    ELSE {<<>>, <<"object">>, <<"scalar">>}

\* ------------------------------------------------------------- truncation
VisibleTextCap(a) == IF a = "async" THEN CapAsync ELSE CapSync
Min(a, b) == IF a < b THEN a ELSE b
TruncateShort(text, cap) == SubSeq(text, 1, Min(Len(text), cap - 1))
\* Python's text[:cap]
Truncate(text, cap) == SubSeq(text, 1, Min(Len(text), cap))

Prompt(a, schema, text) ==
    [text |-> Truncate(text, VisibleTextCap(a)), schema |-> schema]
NoPrompt == [text |-> <<>>, schema |-> <<>>]

\* ------------------------------------------------ analysis, sync iteration
\* result -> violations_data
violations_data(r) ==
    IF r.kind \in {"array", "object_violations"} THEN r.items ELSE <<>>

get_severity_medium(v) == IF v.severity = Absent THEN "Medium" ELSE v.severity
get_severity(v) == IF v.severity = Absent THEN "Low" ELSE v.severity
get_description(v) == IF v.description = Absent THEN "" ELSE v.description
get_policy_reference(v) ==
    IF v.policy_reference = Absent THEN Null ELSE v.policy_reference

\* Violation(...): the three declared fields and nothing else.
Violation(v) ==
    [severity |-> get_severity(v), description |-> get_description(v),
     policy_reference |-> get_policy_reference(v)]
\* pydantic accepts the object: severity and description are str
ViolationValid(x) == x.severity # Null /\ x.description # Null

IsDict(v) == v.isdict
RECURSIVE Convert(_)
Convert(L) ==
    IF L = <<>> THEN <<>>
    ELSE IF IsDict(Head(L)) THEN <<Violation(Head(L))>> \o Convert(Tail(L))
    ELSE Convert(Tail(L))

Outcome(ok, code, detail, value) ==
    [ok |-> ok, code |-> code, detail |-> detail, value |-> value]
Pending == Outcome(FALSE, 0, "pending", NoBody)

\* validate_schema_with_openai from the completion on: a list of Violation, or
\* the HTTPException raised.
validate_schema_with_openai(r) ==
    IF r.kind = "transport_error" THEN
        Outcome(FALSE, 500, "OpenAI API error", NoBody)
    ELSE IF ~json_loads_ok(r) THEN
        IF r.kind = "none"
        THEN Outcome(FALSE, 500, "OpenAI API error", NoBody)
        ELSE Outcome(FALSE, 500, "Failed to parse OpenAI response", NoBody)
    ELSE IF r.kind = "object_null" THEN
        Outcome(FALSE, 500, "OpenAI API error", NoBody)
    ELSE LET vs == Convert(violations_data(r))
         IN  IF \A i \in 1..Len(vs) : ViolationValid(vs[i])
             THEN Outcome(TRUE, 200, "", [kind |-> "violations", violations |-> vs])
             ELSE Outcome(FALSE, 500, "OpenAI API error", NoBody)

\* ----------------------------------------------- analysis, async iteration
\* json.loads of the completion, returned as is.
analysis_async(r) ==
    IF r.kind = "transport_error" \/ ~json_loads_ok(r)
    THEN Outcome(FALSE, 500, "AI Analysis failed", NoBody)
    ELSE Outcome(TRUE, 200, "", [kind |-> "raw", value |-> r])

Analyze(a, r) ==
    IF a = "async" THEN analysis_async(r) ELSE validate_schema_with_openai(r)

\* The short-circuit result of the async iteration.
NoSchemaResult ==
    [kind |-> "dict", status |-> "Fail", summary |-> "No Schema Markup found",
     risks |-> <<>>]

\* ScanResponse(json_ld=...): every json_ld item must be a dict.
ScanResponseValid(schema) == \A i \in 1..Len(schema) : schema[i] = "object"
ScanResponse(schema, text, vs) ==
    [kind |-> "ScanResponse", json_ld |-> schema, visible_text |-> text,
     violations |-> vs]

\* ------------------------------------------------------------ the pipeline
SampleEntry ==
    [isdict |-> TRUE, severity |-> Absent, description |-> "d",
     policy_reference |-> Absent, issue |-> "i"]
NullEntry == [SampleEntry EXCEPT !.severity = Null]
PipelineReplies ==
    {TransportError, OtherReply("invalid"), OtherReply("none"),
     OtherReply("object_other"), ArrayReply(<<SampleEntry>>),
     ObjectReply(<<SampleEntry>>), ObjectReply(<<NullEntry>>)}

PipeInit ==
    /\ api_key \in (IF app = "sync" THEN {"", "sk"} ELSE {"sk"})
    /\ loop_holder = 0
    /\ pc = [r \in Requests |-> "received"]
    /\ url \in [Requests -> Urls]
    /\ browser = [r \in Requests |-> "none"]
    /\ nav = [r \in Requests |-> "none"]
    /\ extracted = [r \in Requests |-> FALSE]
    /\ schema_data = [r \in Requests |-> <<>>]
    /\ visible_text = [r \in Requests |-> <<>>]
    /\ ai_calls = [r \in Requests |-> 0]
    /\ ai_request = [r \in Requests |-> NoPrompt]
    /\ reply = [r \in Requests |-> NoReply]
    /\ analysis = [r \in Requests |-> NoBody]
    /\ response = [r \in Requests |-> NoResponse]

NormIdle ==
    /\ n_pc = "idle" /\ n_list = <<>> /\ n_other = "object_other"
    /\ n_out_array = Pending /\ n_out_object = Pending /\ n_out_other = Pending
TruncIdle ==
    /\ t_pc = "idle" /\ t_text = <<>> /\ t_sent = <<>> /\ t_resent = <<>>

Init ==
    /\ app \in Apps
    /\ PipeInit
    /\ NormIdle
    /\ TruncIdle

\* async: a handler runs on the event loop, so it takes a step only while no
\* blocking call holds the loop.  sync: every request has its own thread.
OnLoop(r) == app = "async" => loop_holder = 0

\* The request ends with response x; whatever browser is still open is closed
\* by leaving the playwright block.
Finish(r, x) ==
    /\ response' = [response EXCEPT ![r] = x]
    /\ browser' = [browser EXCEPT ![r] = PlaywrightExit(browser[r])]
    /\ pc' = [pc EXCEPT ![r] = "done"]

\* The framework validates the body against ScanRequest, then calls scan_url,
\* which enters the playwright block and starts chromium.launch.
Validate(r) ==
    /\ pc[r] = "received"
    /\ OnLoop(r)
    /\ IF ScanRequest(app, url[r])
       THEN /\ pc' = [pc EXCEPT ![r] = "launching"]
            /\ UNCHANGED <<response, browser>>
       ELSE Finish(r, ValidationError422)
    /\ UNCHANGED <<app, api_key, loop_holder, url, nav, extracted, schema_data,
                   visible_text, ai_calls, ai_request, reply, analysis,
                   normVars, truncVars>>

\* chromium.launch returns or raises; on success the page is made and
\* page.goto starts.
LaunchDone(r) ==
    /\ pc[r] = "launching"
    /\ OnLoop(r)
    /\ \E ok \in BOOLEAN :
          IF ok
          THEN /\ browser' = [browser EXCEPT ![r] = "open"]
               /\ nav' = [nav EXCEPT ![r] = "started"]
               /\ pc' = [pc EXCEPT ![r] = "navigating"]
               /\ UNCHANGED response
          ELSE /\ Finish(r, ScrapeError(app))
               /\ UNCHANGED nav
    /\ UNCHANGED <<app, api_key, loop_holder, url, extracted, schema_data, visible_text,
                   ai_calls, ai_request, reply, analysis, normVars, truncVars>>

\* page.goto returns, raises or times out.
GotoDone(r) ==
    /\ pc[r] = "navigating"
    /\ OnLoop(r)
    /\ \E out \in NavOutcomes(url[r]) :
          /\ nav' = [nav EXCEPT ![r] = out]
          /\ IF out = "ok"
             THEN /\ pc' = [pc EXCEPT ![r] = "extracting"]
                  /\ UNCHANGED <<response, browser>>
             ELSE Finish(r, ScrapeError(app))
    /\ UNCHANGED <<app, api_key, loop_holder, url, extracted, schema_data, visible_text,
                   ai_calls, ai_request, reply, analysis, normVars, truncVars>>

\* The two extractions return, or one of them raises.
ExtractDone(r) ==
    /\ pc[r] = "extracting"
    /\ OnLoop(r)
    /\ \/ \E s \in SchemaSets(app), t \in PipelineTexts :
             /\ schema_data' = [schema_data EXCEPT ![r] = s]
             /\ visible_text' = [visible_text EXCEPT ![r] = t]
             /\ extracted' = [extracted EXCEPT ![r] = TRUE]
             /\ pc' = [pc EXCEPT ![r] = "closing"]
             /\ UNCHANGED <<response, browser>>
       \/ /\ Finish(r, ScrapeError(app))
          /\ UNCHANGED <<schema_data, visible_text, extracted>>
    /\ UNCHANGED <<app, api_key, loop_holder, url, nav, ai_calls, ai_request,
                   reply, analysis, normVars, truncVars>>

\* browser.close() raises.
CloseFails(r) ==
    /\ pc[r] = "closing"
    /\ OnLoop(r)
    /\ Finish(r, ScrapeError(app))
    /\ UNCHANGED <<app, api_key, loop_holder, url, nav, extracted, schema_data,
                   visible_text, ai_calls, ai_request, reply, analysis,
                   normVars, truncVars>>

\* async: browser.close() returns, the playwright block is left, and there is
\* no schema: the handler returns the fixed result without a call.
ShortCircuit(r) ==
    /\ pc[r] = "closing"
    /\ app = "async"
    /\ OnLoop(r)
    /\ schema_data[r] = <<>>
    /\ browser' = [browser EXCEPT ![r] = PlaywrightExit("closed")]
    /\ analysis' = [analysis EXCEPT ![r] = NoSchemaResult]
    /\ pc' = [pc EXCEPT ![r] = "analyzed"]
    /\ UNCHANGED <<app, api_key, loop_holder, url, nav, extracted, schema_data,
                   visible_text, ai_calls, ai_request, reply, response,
                   normVars, truncVars>>

\* sync: browser.close() returns and validate_schema_with_openai finds no key.
NoApiKey(r) ==
    /\ pc[r] = "closing"
    /\ app = "sync"
    /\ api_key = ""
    /\ response' = [response EXCEPT ![r] =
                       HTTPException(500, "OpenAI API key not configured")]
    /\ browser' = [browser EXCEPT ![r] = PlaywrightExit("closed")]
    /\ pc' = [pc EXCEPT ![r] = "done"]
    /\ UNCHANGED <<app, api_key, loop_holder, url, nav, extracted, schema_data,
                   visible_text, ai_calls, ai_request, reply, analysis,
                   normVars, truncVars>>

\* browser.close() returns, the prompt is built and chat.completions.create is
\* called.  The client is the synchronous one: in the async app the call
\* holds the event loop until it returns.
CallOpenAI(r) ==
    /\ pc[r] = "closing"
    /\ OnLoop(r)
    /\ IF app = "async" THEN schema_data[r] # <<>> ELSE api_key # ""
    /\ browser' = [browser EXCEPT ![r] = "closed"]
    /\ ai_request' = [ai_request EXCEPT ![r] =
                         Prompt(app, schema_data[r], visible_text[r])]
    /\ ai_calls' = [ai_calls EXCEPT ![r] = @ + 1]
    /\ loop_holder' = IF app = "async" THEN r ELSE loop_holder
    /\ pc' = [pc EXCEPT ![r] = "calling_ai"]
    /\ UNCHANGED <<app, api_key, url, nav, extracted, schema_data, visible_text, reply,
                   analysis, response, normVars, truncVars>>

\* The call returns or raises, and the reply is parsed.
OpenAIDone(r) ==
    /\ pc[r] = "calling_ai"
    /\ app = "async" => loop_holder = r
    /\ \E rep \in PipelineReplies :
          LET out == Analyze(app, rep)
          IN  /\ reply' = [reply EXCEPT ![r] = rep]
              /\ IF out.ok
                 THEN /\ analysis' = [analysis EXCEPT ![r] = out.value]
                      /\ pc' = [pc EXCEPT ![r] = "analyzed"]
                      /\ UNCHANGED <<response, browser>>
                 ELSE /\ Finish(r, HTTPException(out.code, out.detail))
                      /\ UNCHANGED analysis
    /\ loop_holder' = IF app = "async" THEN 0 ELSE loop_holder
    /\ UNCHANGED <<app, api_key, url, nav, extracted, schema_data, visible_text,
                   ai_calls, ai_request, normVars, truncVars>>

\* The handler returns.  sync: the ScanResponse is built first, and a json_ld
\* item that is not an object makes that raise.
Respond(r) ==
    /\ pc[r] = "analyzed"
    /\ OnLoop(r)
    /\ IF app = "async"
       THEN Finish(r, Resp(200, "", analysis[r]))
       ELSE IF ScanResponseValid(schema_data[r])
       THEN Finish(r, Resp(200, "", ScanResponse(schema_data[r],
                               visible_text[r], analysis[r].violations)))
       ELSE Finish(r, ScrapeError(app))
    /\ UNCHANGED <<app, api_key, loop_holder, url, nav, extracted, schema_data,
                   visible_text, ai_calls, ai_request, reply, analysis,
                   normVars, truncVars>>

Step(r) ==
    \/ Validate(r)
    \/ LaunchDone(r)
    \/ GotoDone(r)
    \/ ExtractDone(r)
    \/ CloseFails(r)
    \/ ShortCircuit(r)
    \/ NoApiKey(r)
    \/ CallOpenAI(r)
    \/ OpenAIDone(r)
    \/ Respond(r)

Next == \E r \in Requests : Step(r)

Spec == Init /\ [][Next]_vars

\* ----------------------------------------- the analysis as a pure function
PipeIdle ==
    /\ api_key = "sk"
    /\ loop_holder = 0
    /\ pc = [r \in Requests |-> "idle"]
    /\ url = [r \in Requests |-> "wellformed"]
    /\ browser = [r \in Requests |-> "none"]
    /\ nav = [r \in Requests |-> "none"]
    /\ extracted = [r \in Requests |-> FALSE]
    /\ schema_data = [r \in Requests |-> <<>>]
    /\ visible_text = [r \in Requests |-> <<>>]
    /\ ai_calls = [r \in Requests |-> 0]
    /\ ai_request = [r \in Requests |-> NoPrompt]
    /\ reply = [r \in Requests |-> NoReply]
    /\ analysis = [r \in Requests |-> NoBody]
    /\ response = [r \in Requests |-> NoResponse]

NormInit ==
    /\ app \in Apps
    /\ PipeIdle
    /\ TruncIdle
    /\ n_pc = "start"
    /\ n_list \in EntryLists
    /\ n_other \in OtherShapes
    /\ n_out_array = Pending /\ n_out_object = Pending /\ n_out_other = Pending

\* The same list arrives as a bare array and wrapped in {"violations": ...}.
AnalyzeLists ==
    /\ n_pc = "start"
    /\ n_out_array' = Analyze(app, ArrayReply(n_list))
    /\ n_out_object' = Analyze(app, ObjectReply(n_list))
    /\ n_pc' = "lists"
    /\ UNCHANGED <<app, pipeVars, truncVars, n_list, n_other, n_out_other>>

\* A reply of another shape arrives.
AnalyzeOther ==
    /\ n_pc = "lists"
    /\ n_out_other' = Analyze(app, OtherReply(n_other))
    /\ n_pc' = "done"
    /\ UNCHANGED <<app, pipeVars, truncVars, n_list, n_other, n_out_array,
                   n_out_object>>

NormNext == AnalyzeLists \/ AnalyzeOther
SpecNorm == NormInit /\ [][NormNext]_vars

\* --------------------------------------- the truncation as a pure function
TruncLengths ==
    (0..MaxOver) \cup ((CapSync - MaxOver)..(CapSync + MaxOver))
                 \cup ((CapAsync - MaxOver)..(CapAsync + MaxOver))
TruncTexts == {MakeText(n, k) : n \in TruncLengths, k \in {1, 2}}

TruncInit ==
    /\ app \in Apps
    /\ PipeIdle
    /\ NormIdle
    /\ t_pc = "start"
    /\ t_text \in TruncTexts
    /\ t_sent = <<>>
    /\ t_resent = <<>>

\* The prompt is built from the extracted text.
SendText ==
    /\ t_pc = "start"
    /\ t_sent' = Prompt(app, <<>>, t_text).text
    /\ t_pc' = "sent"
    /\ UNCHANGED <<app, pipeVars, normVars, t_text, t_resent>>

\* The text of the prompt goes through the cut again.
Retruncate ==
    /\ t_pc = "sent"
    /\ t_resent' = Prompt(app, <<>>, t_sent).text
    /\ t_pc' = "resent"
    /\ UNCHANGED <<app, pipeVars, normVars, t_text, t_sent>>

TruncNext == SendText \/ Retruncate
SpecTrunc == TruncInit /\ [][TruncNext]_vars

\* ================================================================== claims
Done(r) == pc[r] = "done"
AnalysisErrors ==
    {"AI Analysis failed", "Failed to parse OpenAI response", "OpenAI API error"}

\* The list of violations a successful response carries: "violations" of the
\* typed response, "risks" of the fixed no-schema result, and for a reply
\* passed through as is, the array itself or its "violations" value.
ListOf(body) ==
    IF body.kind = "ScanResponse" THEN [present |-> TRUE, list |-> body.violations]
    ELSE IF body.kind = "violations" THEN [present |-> TRUE, list |-> body.violations]
    ELSE IF body.kind = "dict" THEN [present |-> TRUE, list |-> body.risks]
    ELSE IF body.kind = "raw" /\ body.value.kind \in {"array", "object_violations"}
    THEN [present |-> TRUE, list |-> body.value.items]
    ELSE [present |-> FALSE, list |-> <<>>]
EmptyList == [present |-> TRUE, list |-> <<>>]

\* C1: a scan whose JSON-LD extraction returned nothing makes no call to the
\* text-generation service, and when it has finished it answered status Fail
\* with an empty violation list (or the scraping error, when closing the
\* browser raised right after the extraction; a deployment without a service
\* credential is left aside).
C1_EmptySchemaShortCircuits ==
    \A r \in Requests :
        (extracted[r] /\ schema_data[r] = <<>>) =>
            /\ ai_calls[r] = 0
            /\ Done(r) =>
                  \/ response[r] = ScrapeError(app)
                  \/ api_key = ""
                  \/ /\ response[r].code = 200
                     /\ response[r].body.kind = "dict"
                     /\ response[r].body.status = "Fail"
                     /\ ListOf(response[r].body) = EmptyList

\* C2: when a scan has finished, the browser it launched is not open any
\* more, whichever way the scan ended.
C2_BrowserClosedWhenDone ==
    \A r \in Requests : Done(r) => browser[r] # "open"

\* C2 witness: a scan ended by an exception raised during extraction, with
\* its browser closed.
C2_Witness ==
    \E r \in Requests :
        /\ Done(r) /\ nav[r] = "ok" /\ ~extracted[r]
        /\ response[r].code >= 400
        /\ browser[r] = "closed"

\* C3: a scan whose navigation failed or timed out answered with a 4xx whose
\* message names the scraping failure.
C3_FetchFailureIsClientError ==
    \A r \in Requests :
        (Done(r) /\ nav[r] \in {"error", "timeout"}) =>
            /\ response[r].code \in 400..499
            /\ response[r].detail = "Scraping failed"

\* C4: for a request whose url is not a well-formed absolute URL no browser
\* is launched, no navigation is attempted and no call is made.
C4_MalformedUrlNoNetwork ==
    \A r \in Requests :
        url[r] # "wellformed" =>
            /\ pc[r] \notin {"launching", "navigating"}
            /\ browser[r] = "none"
            /\ nav[r] = "none"
            /\ ai_calls[r] = 0

\* C5: once the service's reply is not valid JSON, the scan has ended with a
\* 5xx error response carrying an analysis-error message: it is neither a
\* success nor still running.
C5_InvalidJsonIsServerError ==
    \A r \in Requests :
        reply[r].kind \in {"invalid", "none"} =>
            /\ Done(r)
            /\ response[r].code \in 500..599
            /\ response[r].body.kind = "error"
            /\ response[r].detail \in AnalysisErrors

\* C5 witness: a scan received a reply that is not JSON.
C5_Witness ==
    \E r \in Requests :
        /\ reply[r].kind = "invalid" /\ ai_calls[r] = 1 /\ Done(r)
        /\ response[r].code = 500

\* C6: the bare array L and the object {violations: L} give the same
\* violation list, and a reply of any other shape gives the empty list and no
\* error.
C6_ShapeInvariance ==
    /\ n_pc \in {"lists", "done"} =>
          /\ n_out_array.ok = n_out_object.ok
          /\ ListOf(n_out_array.value) = ListOf(n_out_object.value)
    /\ n_pc = "done" =>
          /\ n_out_other.ok
          /\ ListOf(n_out_other.value) = EmptyList

\* C7: while a scan waits in the browser launch, the navigation or the call
\* to the service, every other scan that has not finished can take a step.
Blocked(r) == pc[r] \in {"launching", "navigating", "calling_ai"}
C7_SlowScanBlocksNobody ==
    \A r, q \in Requests :
        (r # q /\ Blocked(r) /\ ~Done(q)) => ENABLED Step(q)

\* C8: the text sent is the first cap characters of a text longer than the
\* cap, the text itself otherwise, and cutting the sent text again changes
\* nothing.
C8_TruncationIsPrefixCut ==
    LET cap == VisibleTextCap(app)
    IN  /\ t_pc \in {"sent", "resent"} =>
              /\ Len(t_text) > cap => Len(t_sent) = cap
              /\ Len(t_text) <= cap => t_sent = t_text
              /\ \A i \in 1..Len(t_sent) : t_sent[i] = t_text[i]
        /\ t_pc = "resent" => t_resent = t_sent

\* C8 witness: a text longer than the cap was sent and cut again.
C8_Witness ==
    /\ t_pc = "resent"
    /\ Len(t_text) > VisibleTextCap(app)
    /\ Len(t_resent) = VisibleTextCap(app)

\* The stage of a scan: what has completed so far.
Stage(p, x) ==
    CASE p \in {"idle", "received", "launching", "navigating"} -> "Received"
      [] p = "extracting" -> "Fetched"
      [] p \in {"closing", "calling_ai"} -> "Extracted"
      [] p = "analyzed" -> "Analyzed"
      [] p = "done" /\ x.code = 200 -> "Responded"
      [] p = "done" /\ x.code = 422 -> "Rejected"
      [] OTHER -> "Failed"
ClaimedEdges ==
    {<<"Received", "Fetched">>, <<"Fetched", "Extracted">>,
     <<"Extracted", "Analyzed">>, <<"Analyzed", "Responded">>,
     <<"Received", "Rejected">>, <<"Fetched", "Failed">>,
     <<"Extracted", "Failed">>}
ActualEdges ==
    ClaimedEdges \cup {<<"Received", "Failed">>, <<"Analyzed", "Failed">>}
\* extraction runs only after the navigation returned, the call only after
\* the extraction returned
StagesInOrder(p, n, e, c) ==
    /\ p = "extracting" => n = "ok"
    /\ c > 0 => e
MovesAlong(edges) ==
    \A r \in Requests :
        /\ StagesInOrder(pc[r], nav[r], extracted[r], ai_calls[r])
        /\ StagesInOrder(pc'[r], nav'[r], extracted'[r], ai_calls'[r])
        /\ \/ Stage(pc'[r], response'[r]) = Stage(pc[r], response[r])
           \/ <<Stage(pc[r], response[r]), Stage(pc'[r], response'[r])>> \in edges

\* C9 as stated: a scan moves only along Received, Fetched, Extracted,
\* Analyzed, Responded, or to Rejected from Received, or to Failed from
\* Fetched or Extracted.
C9_StagesAsClaimed == [][MovesAlong(ClaimedEdges)]_vars

\* C9 amended: a scan moves only along Received, Fetched, Extracted,
\* Analyzed, Responded, or to Rejected from Received, or to Failed from
\* Received, Fetched, Extracted or Analyzed; extraction starts only after
\* the navigation returned and the call only after the extraction returned.
C9_StagesInOrder == [][MovesAlong(ActualEdges)]_vars

\* C9 witness: one scan failed in its launch or navigation, before anything
\* was fetched, and another went through every stage to its response.
C9_Witness ==
    \E r, q \in Requests :
        /\ Stage(pc[r], response[r]) = "Failed" /\ nav[r] # "ok"
        /\ Stage(pc[q], response[q]) = "Responded" /\ ai_calls[q] = 1

\* The entries of the list that are JSON objects, in order.
RECURSIVE Dicts(_)
Dicts(L) ==
    IF L = <<>> THEN <<>>
    ELSE IF Head(L).isdict THEN <<Head(L)>> \o Dicts(Tail(L)) ELSE Dicts(Tail(L))
CoercedFrom(e, v) ==
    /\ DOMAIN v = {"severity", "description", "policy_reference"}
    /\ v.severity = (IF e.severity = Absent THEN "Low" ELSE e.severity)
    /\ v.description = (IF e.description = Absent THEN "" ELSE e.description)
CoercedList(L, out) ==
    /\ out.ok
    /\ LET vs == ListOf(out.value).list
       IN  /\ Len(vs) = Len(L)
           /\ \A i \in 1..Len(L) : CoercedFrom(L[i], vs[i])

====
